---- MODULE Spec2Model ----
(***************************************************************************)
(* graphql-custom-directive: the directive-resolution middleware           *)
(* (resolveMiddlewareWrapper, resolveWithDirective, parseSchemaDirectives) *)
(* and the schema walk (wrapFieldsWithMiddleware,                          *)
(* applySchemaCustomDirectives) of src/src/index.js.                       *)
(*                                                                         *)
(* Spec     : one resolution of one wrapped field, promise reactions as    *)
(*            separate steps.                                              *)
(* SpecWalk : one call of applySchemaCustomDirectives over a type graph.   *)
(***************************************************************************)
EXTENDS Integers, Sequences, FiniteSets, TLC

VARIABLES
    \* ---- one field resolution --------------------------------------
    fieldDirectives,  \* field.directives: static config, declaration order
    astDirectives,    \* info.fieldNodes[0].directives, textual order
    fieldResolve,     \* field.resolve before wrapping, or "undefined"
    source,           \* the source the wrapped resolver receives
    variableValues,   \* info.variableValues (input_0, input)
    origOutcome,      \* what the original resolver produces when called
    rpc,              \* "idle" | "running" | "done"
    chain,            \* the directive nodes the wrapper runs, in order
    defer,            \* defer[k]: the promise of chain position k
    recov,            \* recov[k]: the promise made by defer[k].catch(...)
    calls,            \* every transform invocation, in invocation order
    resolveCalls,     \* every invocation of the original resolver
    errors,           \* the external list the catch directive pushes to
    result,           \* what the wrapped resolver returned
    \* ---- one schema activation -------------------------------------
    schema,           \* type name -> (label -> type reference), + roots
    wpc,              \* "idle" | "query" | "mutation" | "done" | "threw"
    stack,            \* call frames of wrapFieldsWithMiddleware
    typeMet,          \* the visited-type-name record of the current walk
    wrapCount         \* <<type, label>> -> times field.resolve was replaced

\* what one resolution is given and never assigns
inputs == <<fieldDirectives, astDirectives, fieldResolve, source,
           variableValues, origOutcome>>

rvars == <<fieldDirectives, astDirectives, fieldResolve, source, variableValues,
           origOutcome, rpc, chain, defer, recov, calls, resolveCalls,
           errors, result>>
wvars == <<schema, wpc, stack, typeMet, wrapCount>>
vars == <<rvars, wvars>>

----------------------------------------------------------------------------
(* Bounds of the model *)

\* static plus query-text directives attached to the field
MaxDirectives == 3

\* fields of the query root type
MaxFields == 2

\* list / non-null wrappers around a field's named type
MaxWrap == 2

----------------------------------------------------------------------------
(* Values, promises *)

Null == [t |-> "null", n |-> 0]
Undefined == [t |-> "undefined", n |-> 0]
\* the string "test" repeated n times, separated by spaces
Str(n) == [t |-> "string", n |-> n]

Truthy(v) == v.t = "string"

Fulfilled(v) == [st |-> "fulfilled", val |-> v, err |-> "none"]
Rejected(e) == [st |-> "rejected", val |-> Undefined, err |-> e]
Pending == [st |-> "pending", val |-> Undefined, err |-> "none"]
\* a promise the code has not created yet
Unborn == [st |-> "unborn", val |-> Undefined, err |-> "none"]

Settled(p) == p.st \in {"fulfilled", "rejected"}

----------------------------------------------------------------------------
(* src/src/index.js:4 *)

DEFAULT_DIRECTIVES == {"skip", "include"}

\* the directives registered in schema._directives with a resolve function
CustomNames == {"duplicate", "throws", "catch"}

IsDefault(d) == d.name \in DEFAULT_DIRECTIVES

----------------------------------------------------------------------------
(* The directive transforms of the repository's tests                      *)

\* doDuplicate(input, by): input repeated (by || 2) times
doDuplicate(input, by) == Str(input.n * (IF by = 0 THEN 2 ELSE by))

\* duplicate: resolve().then(result => result ? doDuplicate(result, by) : result)
DuplicateResolve(args, next) ==
    IF next.st = "rejected" THEN Rejected(next.err)
    ELSE IF Truthy(next.val) THEN Fulfilled(doDuplicate(next.val, args.by))
    ELSE Fulfilled(next.val)

\* throws: resolve().then(() => { throw 'Test Error' })
ThrowsResolve(args, next) ==
    IF next.st = "rejected" THEN Rejected(next.err)
    ELSE Rejected("Test Error")

\* catch: resolve().then(result => result).catch(e => { errors.push(e) })
CatchResolve(args, next) ==
    IF next.st = "rejected" THEN Fulfilled(Undefined)
    ELSE Fulfilled(next.val)

\* what the promise returned by directiveConfig.resolve(...) settles to
TransformOutcome(name, args, next) ==
    CASE name = "duplicate" -> DuplicateResolve(args, next)
      [] name = "throws" -> ThrowsResolve(args, next)
      [] OTHER -> CatchResolve(args, next)

\* whether that transform pushes the error to the external list
PushesError(name, next) == name = "catch" /\ next.st = "rejected"

----------------------------------------------------------------------------
(* parseSchemaDirectives, src/src/index.js:45-81                           *)

\* `directives.args || []`: the entry of the static record whose KEY is
\* "args".  No directive of the model is named "args", so the inner loop
\* has nothing to iterate and every synthesized node has no arguments.
directiveArgNodes(directives) == << >>

parseSchemaDirectives(directives) ==
    [i \in 1..Len(directives) |->
        [kind |-> "DirectiveDefinition",
         name |-> directives[i].name,
         arguments |-> directiveArgNodes(directives)]]

----------------------------------------------------------------------------
(* resolveWithDirective, src/src/index.js:25-40                            *)

\* source || variableValues.input_0 || variableValues.input || {}
EffectiveSource(src, vv) ==
    IF src # "undefined" THEN src
    ELSE IF vv.input_0 # "none" THEN vv.input_0
    ELSE IF vv.input # "none" THEN vv.input
    ELSE "emptyObject"

\* getDirectiveValues(directiveConfig, {directives: [directive]}, variables):
\* the declared argument `by`, 0 standing for undefined (not given)
getDirectiveValues(directive) ==
    LET hits == {i \in DOMAIN directive.arguments :
                    directive.arguments[i].name = "by"}
    IN  [by |-> IF hits = {} THEN 0
                ELSE directive.arguments[CHOOSE i \in hits : TRUE].value]

\* skip / include carry no resolve function (or are not in
\* schema._directives at all): lines 31 or 39 throw a TypeError
ThrowsTypeError(directive) == directive.name \notin CustomNames

\* the invocation record of directiveConfig.resolve(resolve, source, args, context, info)
Invocation(pos, directive, next, path) ==
    [pos |-> pos,
     name |-> directive.name,
     args |-> getDirectiveValues(directive),
     source |-> EffectiveSource(source, variableValues),
     context |-> "context",
     info |-> "info",
     next |-> next,
     path |-> path]

----------------------------------------------------------------------------
(* resolveMiddlewareWrapper, src/src/index.js:88-148                       *)

\* serverDirectives.concat(fieldNodes[0].directives)
Directives == parseSchemaDirectives(fieldDirectives) \o astDirectives

\* a filter that lets the built-in directives through
FilteredKeepsBuiltIns(ds) == ds

\* directives.filter(d => DEFAULT_DIRECTIVES.indexOf(d.name.value) === -1)
Filtered(ds) == SelectSeq(ds, LAMBDA d : ~IsDefault(d))

\* directives.slice(1), iterated only when directives.length > 1
Slice1(ds) == IF Len(ds) <= 1 THEN << >> ELSE Tail(ds)

\* the first custom directive followed by directives.slice(1)
Chain(ds) == <<Head(Filtered(ds))>> \o Slice1(ds)

\* a then-reaction that also runs the next step when `prev` is rejected
ThenPromiseOnRejection(prev, directive) ==
    IF ThrowsTypeError(directive) THEN Rejected("TypeError") ELSE Pending

\* defer.then(result => resolveWithDirective(() => Promise.resolve(result), ...)):
\* the promise it creates, once `prev` has settled
ThenPromise(prev, directive) ==
    IF prev.st = "rejected" THEN Rejected(prev.err)
    ELSE IF ThrowsTypeError(directive) THEN Rejected("TypeError")
    ELSE Pending

\* defer.catch(e => resolveWithDirective(() => Promise.reject(e), ...)):
\* the promise it creates, once `prev` has settled
CatchPromise(prev, directive) ==
    IF prev.st = "fulfilled" THEN Fulfilled(prev.val)
    ELSE IF ThrowsTypeError(directive) THEN Rejected("TypeError")
    ELSE Pending

\* resolve = defaultResolveFn: the default of the first parameter
Resolve == IF fieldResolve = "undefined" THEN "defaultResolveFn" ELSE fieldResolve

\* resolve(source, args, context, info)
ResolverCall == [fn |-> Resolve, source |-> source, args |-> "args",
                 context |-> "context", info |-> "info"]

\* lines 99-101: no custom directive, the original result is returned as is
CallDirect ==
    /\ rpc = "idle"
    /\ Filtered(Directives) = << >>
    /\ rpc' = "done"
    /\ resolveCalls' = Append(resolveCalls, ResolverCall)
    /\ result' = [kind |-> "direct", outcome |-> origOutcome, pos |-> 0]
    /\ chain' = << >>
    /\ UNCHANGED <<defer, recov, calls, errors, inputs, wvars>>

\* lines 103-146, the synchronous part: the first transform is invoked, the
\* reactions are registered and the last promise of the chain is returned
CallWithDirectives ==
    /\ rpc = "idle"
    /\ Filtered(Directives) # << >>
    /\ LET c == Chain(Directives) IN
        /\ chain' = c
        /\ defer' = [k \in 1..Len(c) |-> IF k = 1 THEN Pending ELSE Unborn]
        /\ recov' = [k \in 1..Len(c) |-> Unborn]
        /\ calls' = Append(calls, Invocation(1, c[1], origOutcome, "then"))
        /\ result' = [kind |-> "promise", outcome |-> Pending, pos |-> Len(c)]
    /\ resolveCalls' = Append(resolveCalls, ResolverCall)
    /\ rpc' = "running"
    /\ UNCHANGED <<errors, inputs, wvars>>

\* the invocation of chain position k on the given path that is still pending
LastCall(k, path) ==
    LET hits == {i \in DOMAIN calls : calls[i].pos = k /\ calls[i].path = path}
    IN  calls[CHOOSE i \in hits : TRUE]

\* the promise returned by the transform of step k settles
SettleStep(k) ==
    /\ rpc = "running"
    /\ k \in DOMAIN defer
    /\ defer[k].st = "pending"
    /\ LET c == LastCall(k, "then") IN
        /\ defer' = [defer EXCEPT ![k] = TransformOutcome(c.name, c.args, c.next)]
        /\ errors' = IF PushesError(c.name, c.next)
                     THEN Append(errors, c.next.err) ELSE errors
    /\ UNCHANGED <<rpc, chain, recov, calls, resolveCalls, result, inputs, wvars>>

\* the promise reactions a transform chains on next() before its own promise
\* settles: resolve().then(..) for duplicate and throws,
\* resolve().then(..).catch(..) for catch
Hops(name) == IF name = "catch" THEN {"then", "catch"} ELSE {"then"}

\* Reaction jobs run in the order they were queued.  The catch reaction of
\* step k runs once the re-invoked transform of step k - 1 has settled when
\* that transform chains one reaction; a transform chaining two is still
\* pending then, and settles before the catch reaction of step k + 1.
CatchDue(k) ==
    /\ k > 1 =>
          \/ Settled(recov[k - 1])
          \/ recov[k - 1].st = "pending" /\ Hops(chain[k - 1].name) # {"then"}
    /\ k > 2 => Settled(recov[k - 2])

\* the job settling the re-invoked transform of step k was queued after the
\* then-reaction of step k, and for a transform chaining two reactions after
\* the catch and then reactions of step k + 1
RecoveryDue(k) ==
    /\ k + 1 \in DOMAIN defer => defer[k + 1].st # "unborn"
    /\ Hops(chain[k].name) # {"then"} =>
          /\ k + 1 \in DOMAIN recov => recov[k + 1].st # "unborn"
          /\ k + 2 \in DOMAIN defer => defer[k + 2].st # "unborn"

\* the reaction registered by defer.catch(...) on step k (lines 110-119, 135-143)
CatchReaction(k) ==
    /\ rpc = "running"
    /\ k \in DOMAIN defer
    /\ Settled(defer[k])
    /\ recov[k].st = "unborn"
    /\ CatchDue(k)
    /\ recov' = [recov EXCEPT ![k] = CatchPromise(defer[k], chain[k])]
    /\ calls' = IF CatchPromise(defer[k], chain[k]).st = "pending"
                THEN Append(calls, Invocation(k, chain[k], Rejected(defer[k].err), "catch"))
                ELSE calls
    /\ UNCHANGED <<rpc, chain, defer, resolveCalls, errors, result, inputs, wvars>>

\* the promise returned by the re-invoked transform of step k settles
SettleRecovery(k) ==
    /\ rpc = "running"
    /\ k \in DOMAIN recov
    /\ recov[k].st = "pending"
    /\ RecoveryDue(k)
    /\ LET c == LastCall(k, "catch") IN
        /\ recov' = [recov EXCEPT ![k] = TransformOutcome(c.name, c.args, c.next)]
        /\ errors' = IF PushesError(c.name, c.next)
                     THEN Append(errors, c.next.err) ELSE errors
    /\ UNCHANGED <<rpc, chain, defer, calls, resolveCalls, result, inputs, wvars>>

\* the reaction registered by defer.then(...) on step k (lines 126-134); it was
\* registered after the catch reaction of the same promise and runs after it
ThenReaction(k) ==
    /\ rpc = "running"
    /\ k \in DOMAIN defer /\ k + 1 \in DOMAIN defer
    /\ Settled(defer[k])
    /\ recov[k].st # "unborn"
    /\ defer[k + 1].st = "unborn"
    /\ defer' = [defer EXCEPT ![k + 1] = ThenPromise(defer[k], chain[k + 1])]
    /\ calls' = IF ThenPromise(defer[k], chain[k + 1]).st = "pending"
                THEN Append(calls, Invocation(k + 1, chain[k + 1], Fulfilled(defer[k].val), "then"))
                ELSE calls
    /\ UNCHANGED <<rpc, chain, recov, resolveCalls, errors, result, inputs, wvars>>

\* every promise of the resolution has settled and every reaction has run
Quiescent ==
    /\ \A k \in DOMAIN defer : Settled(defer[k])
    /\ \A k \in DOMAIN recov : Settled(recov[k])

\* the returned promise is the last of the chain
Finish ==
    /\ rpc = "running"
    /\ Quiescent
    /\ rpc' = "done"
    /\ result' = [result EXCEPT !.outcome = defer[Len(chain)]]
    /\ UNCHANGED <<chain, defer, recov, calls, resolveCalls, errors, inputs, wvars>>

----------------------------------------------------------------------------
(* Inputs of one resolution *)

StaticConfigs == {[name |-> "duplicate", by |-> 2],
                  [name |-> "throws", by |-> 0],
                  [name |-> "include", by |-> 0]}

ByArg(k) == <<[name |-> "by", value |-> k]>>

QueryNodes == {[kind |-> "Directive", name |-> "duplicate", arguments |-> << >>],
               [kind |-> "Directive", name |-> "duplicate", arguments |-> ByArg(3)],
               [kind |-> "Directive", name |-> "throws", arguments |-> << >>],
               [kind |-> "Directive", name |-> "catch", arguments |-> << >>],
               [kind |-> "Directive", name |-> "skip", arguments |-> << >>]}

SeqsUpTo(S, n) == UNION {[1..m -> S] : m \in 0..n}

\* a parent object, or a falsy source (a root field without a root value)
Sources == {"parent", "undefined"}

VariableValues == {[input_0 |-> "none", input |-> "none"],
                   [input_0 |-> "none", input |-> "input"],
                   [input_0 |-> "input_0", input |-> "input"]}

\* what a resolver supplied by the schema may produce
OrigOutcomes == {Fulfilled(Str(1)), Fulfilled(Null), Rejected("Resolver Error")}

\* defaultResolveFn, src/src/index.js:12-20: the property of the source named
\* as the field (or the result of calling it), undefined for a non-object
defaultResolveFn(src) ==
    IF src = "parent" THEN {Fulfilled(Str(1)), Fulfilled(Null)}
    ELSE {Fulfilled(Undefined)}

WalkIdle ==
    /\ schema = << >>
    /\ wpc = "off"
    /\ stack = << >>
    /\ typeMet = {}
    /\ wrapCount = << >>

Init ==
    /\ fieldDirectives \in SeqsUpTo(StaticConfigs, MaxDirectives)
    /\ astDirectives \in SeqsUpTo(QueryNodes, MaxDirectives)
    /\ Len(fieldDirectives) + Len(astDirectives) <= MaxDirectives
    /\ fieldResolve \in {"resolve", "undefined"}
    /\ source \in Sources
    /\ variableValues \in VariableValues
    /\ origOutcome \in (IF fieldResolve = "undefined"
                        THEN defaultResolveFn(source) ELSE OrigOutcomes)
    /\ rpc = "idle"
    /\ chain = << >>
    /\ defer = << >>
    /\ recov = << >>
    /\ calls = << >>
    /\ resolveCalls = << >>
    /\ errors = << >>
    /\ result = [kind |-> "none", outcome |-> Unborn, pos |-> 0]
    /\ WalkIdle

Next ==
    \/ CallDirect
    \/ CallWithDirectives
    \/ \E k \in 1..MaxDirectives : SettleStep(k)
    \/ \E k \in 1..MaxDirectives : CatchReaction(k)
    \/ \E k \in 1..MaxDirectives : SettleRecovery(k)
    \/ \E k \in 1..MaxDirectives : ThenReaction(k)
    \/ Finish

Spec == Init /\ [][Next]_vars

----------------------------------------------------------------------------
(* The schema: object types, their fields, the two roots                   *)

ObjectTypes == {"Query", "A", "Mutation"}
NamedTypes == ObjectTypes \cup {"String"}

\* a field's declared type: a named type under `depth` list / non-null wrappers
TypeRefs == [named : NamedTypes, depth : 0..MaxWrap]

\* field.type.name: wrapper types carry no name
TypeName(t) == IF t.depth = 0 THEN t.named ELSE "undefined"

\* field.type._fields: only an object type has a field map
HasFields(t) == t.depth = 0 /\ t.named \in ObjectTypes

\* field.type.ofType && field.type.ofType._fields: the type ONE wrapper down
\* is an object type
OfTypeHasFields(t) == t.depth = 1 /\ t.named \in ObjectTypes

\* while (child.ofType) child = child.ofType
Unwrap(t) == t.named

Fields(T) == schema.types[T]

Labels(T) == {Fields(T)[i].label : i \in DOMAIN Fields(T)}

\* wrapFieldsWithMiddleware(child._fields), line 177: the callee receives the
\* field MAP as `type`, so its `type._fields` is the field labelled "_fields".
\* Without such a field the loop has nothing to iterate; with one, the loop
\* runs over the properties of that field definition and `field.type.name`
\* throws a TypeError on the first truthy property.
WrapFieldMap(T) == IF "_fields" \in Labels(T) THEN "threw" ELSE "returned"

----------------------------------------------------------------------------
(* applySchemaCustomDirectives, src/src/index.js:202-211, and              *)
(* wrapFieldsWithMiddleware, src/src/index.js:154-183                      *)

Frame(T) == [type |-> T, idx |-> 1]

\* deepWrap: true for the query root, false for the mutation root
DeepWrap == wpc = "query"

\* if (!(schema instanceof GraphQLSchema)) throw ...
ApplyInvalid ==
    /\ wpc = "idle"
    /\ wpc' = "threw"
    /\ UNCHANGED <<schema, stack, typeMet, wrapCount, rvars>>

\* wrapFieldsWithMiddleware(schema._queryType) is entered
Apply ==
    /\ wpc = "idle"
    /\ wpc' = "query"
    /\ stack' = <<Frame(schema.query)>>
    /\ typeMet' = {schema.query}
    /\ UNCHANGED <<schema, wrapCount, rvars>>

\* if (field && !typeMet[field.type.name])
Unmet(t) == TypeName(t) \notin typeMet

\* one iteration of `for (let label in fields)` in the innermost call
WalkField ==
    /\ wpc \in {"query", "mutation"}
    /\ stack # << >>
    /\ LET top == stack[Len(stack)]
           T == top.type
           i == top.idx
           advanced == [stack EXCEPT ![Len(stack)].idx = i + 1]
       IN  /\ i <= Len(Fields(T))
           /\ LET t == Fields(T)[i].type IN
               IF ~Unmet(t)
               THEN /\ stack' = advanced
                    /\ UNCHANGED <<wpc, typeMet, wrapCount>>
               ELSE /\ wrapCount' = [wrapCount EXCEPT ![T][i] = @ + 1]
                    /\ IF HasFields(t) /\ DeepWrap
                       THEN /\ stack' = Append(advanced, Frame(t.named))
                            /\ typeMet' = typeMet \cup {t.named}
                            /\ wpc' = wpc
                       ELSE IF OfTypeHasFields(t) /\ DeepWrap
                                /\ WrapFieldMap(Unwrap(t)) = "threw"
                       THEN /\ wpc' = "threw"
                            /\ stack' = << >>
                            /\ typeMet' = typeMet
                       ELSE /\ stack' = advanced
                            /\ UNCHANGED <<wpc, typeMet>>
    /\ UNCHANGED <<schema, rvars>>

\* the loop of the innermost call is over: the call returns
Return ==
    /\ wpc \in {"query", "mutation"}
    /\ stack # << >>
    /\ stack[Len(stack)].idx > Len(Fields(stack[Len(stack)].type))
    /\ stack' = SubSeq(stack, 1, Len(stack) - 1)
    /\ UNCHANGED <<schema, wpc, typeMet, wrapCount, rvars>>

\* wrapFieldsWithMiddleware(schema._mutationType, false) is entered, with a
\* fresh typeMet; `if (!type) return` when the schema has no mutation root
StartMutation ==
    /\ wpc = "query"
    /\ stack = << >>
    /\ wpc' = "mutation"
    /\ stack' = IF schema.mutation = "nil" THEN << >> ELSE <<Frame(schema.mutation)>>
    /\ typeMet' = IF schema.mutation = "nil" THEN {} ELSE {schema.mutation}
    /\ UNCHANGED <<schema, wrapCount, rvars>>

\* return true
ApplyReturn ==
    /\ wpc = "mutation"
    /\ stack = << >>
    /\ wpc' = "done"
    /\ UNCHANGED <<schema, stack, typeMet, wrapCount, rvars>>

----------------------------------------------------------------------------
(* Inputs of one activation *)

\* the field maps with the first m of the given labels, in that order
FieldSeqs(labels) ==
    UNION {{[j \in 1..m |-> [label |-> labels[j], type |-> ts[j]]] :
                ts \in [1..m -> TypeRefs]} : m \in 1..Len(labels)}

QueryLabels == SubSeq(<<"f", "g", "h", "i">>, 1, MaxFields)

Schemas ==
    {[types |-> [T \in ObjectTypes |->
                    CASE T = "Query" -> q [] T = "A" -> a [] OTHER -> m],
      query |-> "Query",
      mutation |-> mut] :
        q \in FieldSeqs(QueryLabels),
        a \in FieldSeqs(<<"f">>) \cup FieldSeqs(<<"_fields">>),
        m \in FieldSeqs(<<"f">>),
        mut \in {"Mutation", "nil"}}

ResolveIdle ==
    /\ fieldDirectives = << >>
    /\ astDirectives = << >>
    /\ fieldResolve = "undefined"
    /\ source = "undefined"
    /\ variableValues = [input_0 |-> "none", input |-> "none"]
    /\ origOutcome = Fulfilled(Undefined)
    /\ rpc = "off"
    /\ chain = << >>
    /\ defer = << >>
    /\ recov = << >>
    /\ calls = << >>
    /\ resolveCalls = << >>
    /\ errors = << >>
    /\ result = [kind |-> "none", outcome |-> Unborn, pos |-> 0]

InitWalk ==
    /\ schema \in Schemas
    /\ wpc = "idle"
    /\ stack = << >>
    /\ typeMet = {}
    /\ wrapCount = [T \in ObjectTypes |-> [i \in DOMAIN Fields(T) |-> 0]]
    /\ ResolveIdle

NextWalk ==
    \/ ApplyInvalid
    \/ Apply
    \/ WalkField
    \/ Return
    \/ StartMutation
    \/ ApplyReturn

SpecWalk == InitWalk /\ [][NextWalk]_vars

----------------------------------------------------------------------------
(* What the claims speak of *)

\* the names attached to the field: static in declaration order, then query
AttachedNames ==
    [i \in 1..Len(fieldDirectives) |-> fieldDirectives[i].name]
    \o [i \in 1..Len(astDirectives) |-> astDirectives[i].name]

\* the located pipeline: the attached invocations that are not built-in
LocatedNames == SelectSeq(AttachedNames, LAMBDA n : n \notin {"skip", "include"})

CallNames == [i \in 1..Len(calls) |-> calls[i].name]

\* no resolver and no transform of the located pipeline rejects
AllFulfil ==
    /\ origOutcome.st = "fulfilled"
    /\ \A i \in DOMAIN LocatedNames : LocatedNames[i] # "throws"

\* the value a call's transform produced
Produced(c) == TransformOutcome(c.name, c.args, c.next)

\* index, among the attached directives, of the node run at chain position k
AttachedIndex(k) ==
    IF k = 1
    THEN CHOOSE i \in DOMAIN AttachedNames :
            /\ AttachedNames[i] \notin {"skip", "include"}
            /\ \A j \in 1..(i - 1) : AttachedNames[j] \in {"skip", "include"}
    ELSE k

\* C1: when every transform of the located pipeline D1..Dn fulfils, the
\* transforms invoked are D1..Dn in that order, D1's next() yields the
\* original resolver's value, each later Di receives the value produced by
\* D(i-1), and the returned promise fulfils with the value produced by Dn.
C1_PipelineComposition ==
    (rpc = "done" /\ LocatedNames # << >> /\ AllFulfil) =>
        /\ CallNames = LocatedNames
        /\ calls[1].next = origOutcome
        /\ \A i \in 2..Len(calls) : calls[i].next = Produced(calls[i - 1])
        /\ result.kind = "promise"
        /\ result.outcome = Produced(calls[Len(calls)])

\* C2: whatever skip / include invocations are attached, the pipeline that
\* is run has no step for a built-in directive: with every transform
\* fulfilling, the steps run are exactly the non-built-in invocations, in
\* order, once each, and no transform is looked up on a built-in directive.
C2_NoBuiltInStep ==
    (rpc # "idle" /\ AllFulfil) =>
        /\ [k \in 1..Len(chain) |-> chain[k].name] = LocatedNames
        /\ \A k \in DOMAIN defer : defer[k].err # "TypeError"

\* C3: the transform of a directive declared statically on the field is
\* invoked with the static argument record of the field definition.
C3_StaticArguments ==
    \A i \in DOMAIN calls :
        AttachedIndex(calls[i].pos) <= Len(fieldDirectives) =>
            calls[i].args = [by |-> fieldDirectives[AttachedIndex(calls[i].pos)].by]

\* the first step of the chain whose promise is rejected
FirstRejected ==
    CHOOSE r \in DOMAIN defer :
        /\ defer[r].st = "rejected"
        /\ \A j \in 1..(r - 1) : defer[j].st # "rejected"

\* C4: if the promise of any transform invocation rejects, the promise the
\* wrapped resolver returned rejects with that error, also when later
\* directives catch on next(); every catch directive after the rejecting step
\* is invoked exactly once and records that error exactly once.
C4_RejectionPropagates ==
    (rpc = "done" /\ result.kind = "promise") =>
        /\ \A i \in DOMAIN calls :
              Produced(calls[i]).st = "rejected" =>
                  result.outcome = Rejected(Produced(calls[i]).err)
        /\ (\E r \in DOMAIN defer : defer[r].st = "rejected") =>
              LET r == FirstRejected
                  later == {k \in r..Len(chain) : chain[k].name = "catch"}
              IN  /\ result.outcome = Rejected(defer[r].err)
                  /\ \A k \in later :
                        Cardinality({i \in DOMAIN calls : calls[i].pos = k}) = 1
                  /\ Cardinality({i \in DOMAIN errors : errors[i] = defer[r].err})
                        = Cardinality(later)

\* the test's @duplicate @throws @catch has run: the field failed with the
\* thrown error and the catch directive recorded it once
C4_Witness ==
    /\ rpc = "done"
    /\ [k \in 1..Len(chain) |-> chain[k].name] = <<"duplicate", "throws", "catch">>
    /\ result.outcome = Rejected("Test Error")
    /\ errors = <<"Test Error">>

\* C5: a field without an applicable custom directive (none attached, or only
\* skip / include) has its original (or default) resolver invoked exactly
\* once with the same source, args, context and info, no transform invoked,
\* and the resolver's own result returned, not wrapped in a promise.
C5_NoDirectivePassThrough ==
    (rpc = "done" /\ LocatedNames = << >>) =>
        /\ resolveCalls = <<[fn |-> IF fieldResolve = "undefined"
                                    THEN "defaultResolveFn" ELSE fieldResolve,
                             source |-> source, args |-> "args",
                             context |-> "context", info |-> "info"]>>
        /\ calls = << >>
        /\ result = [kind |-> "direct", outcome |-> origOutcome, pos |-> 0]

\* a field carrying only built-in directives has been resolved
C5_Witness ==
    /\ rpc = "done"
    /\ AttachedNames # << >>
    /\ LocatedNames = << >>
    /\ result.kind = "direct"

\* C8: every transform is handed the source, context and info the wrapped
\* resolver received, also when that source is falsy.
C8_SourcePassedThrough ==
    \A i \in DOMAIN calls :
        /\ calls[i].source = source
        /\ calls[i].context = "context"
        /\ calls[i].info = "info"

\* C9: in one resolution each invocation of the located pipeline has its
\* transform called exactly once, whatever the outcome of the steps.
C9_OneCallPerStep ==
    rpc = "done" => Len(calls) = Len(LocatedNames)

----------------------------------------------------------------------------
(* The walk's claims *)

RECURSIVE Closure(_)
\* the object types reachable from the types in S through field return types
Closure(S) ==
    LET N == S \cup {U \in ObjectTypes :
                        \E T \in S : \E i \in DOMAIN Fields(T) :
                            Fields(T)[i].type.named = U}
    IN  IF N = S THEN S ELSE Closure(N)

\* wrapFieldsWithMiddleware(schema._queryType) has returned
QueryWalkOver == wpc = "query" /\ stack = << >>

\* no field of a type reachable from the query root has a wrapper type
NoWrappers ==
    \A T \in Closure({"Query"}) : \A i \in DOMAIN Fields(T) :
        Fields(T)[i].type.depth = 0

\* C6: when the walk from the query root has finished, every field of every
\* type reachable from the query root has had its resolver replaced exactly
\* once, also on self-referential and mutually recursive types and on types
\* reached through more than one field (stated on type graphs without
\* list / non-null wrappers, which C7 is about).
C6_EveryFieldWrappedOnce ==
    (QueryWalkOver /\ NoWrappers) =>
        \A T \in Closure({"Query"}) : \A i \in DOMAIN Fields(T) :
            wrapCount[T][i] = 1

\* C7: a field of a visited type whose declared type wraps an object type T in
\* list / non-null wrappers makes the walk from the query root descend into
\* T, as a field declared with type T does: T is visited by the walk.
C7_WrappersUnwrapped ==
    QueryWalkOver =>
        \A S \in typeMet : \A i \in DOMAIN Fields(S) :
            LET t == Fields(S)[i].type
            IN  (t.depth >= 1 /\ t.named \in ObjectTypes) => t.named \in typeMet

\* the types reachable only through the return types of mutation-root fields
MutationOnly ==
    (Closure({U \in ObjectTypes :
                \E i \in DOMAIN Fields("Mutation") :
                    Fields("Mutation")[i].type.named = U})
        \ Closure({"Query"})) \ {"Mutation"}

\* the fields of those types keep their resolver
C10_NoDescent ==
    (wpc \in {"mutation", "done"} /\ schema.mutation # "nil") =>
        \A T \in MutationOnly : \A i \in DOMAIN Fields(T) : wrapCount[T][i] = 0

\* C10: after the activation every field of the mutation root has a wrapped
\* resolver, and the fields of the types reachable only through the return
\* types of mutation-root fields keep theirs.
C10_MutationRootShallow ==
    (wpc = "done" /\ schema.mutation # "nil") =>
        /\ \A i \in DOMAIN Fields("Mutation") : wrapCount["Mutation"][i] >= 1
        /\ C10_NoDescent

----------------------------------------------------------------------------
(* Sequencing of the steps of one resolution *)

\* the steps whose transform has been invoked and whose promise is pending
PendingSteps ==
    {k \in DOMAIN defer : defer[k].st = "pending" \/ recov[k].st = "pending"}

\* the steps whose transform has been invoked
InvokedSteps == {calls[i].pos : i \in DOMAIN calls}

\* no transform of a later step is invoked while the promise of step k pends
StepAfterSettled ==
    \A k \in DOMAIN defer :
        (k + 1 \in InvokedSteps /\ k + 1 \in PendingSteps) => k \notin PendingSteps

\* C11: the steps of one field's pipeline run strictly one after another:
\* the transform of step 1 is invoked before any other, the transform of
\* step i + 1 is not invoked before the promise returned by step i has
\* settled, and never are two steps of the pipeline pending at once.
C11_StrictSequence ==
    rpc \in {"running", "done"} =>
        /\ calls # << >> => calls[1].pos = 1
        /\ \A k \in DOMAIN defer :
              (k + 1 \in InvokedSteps) => Settled(defer[k])
        /\ StepAfterSettled
        /\ Cardinality(PendingSteps) <= 1

====
